---------------------------- MODULE Spec2Model ----------------------------
(***************************************************************************)
(* Hack-truth backend: the video scoring functions of                      *)
(* backend/app/check_video.py, the stores of backend/app/db.py, the Gemini *)
(* client pool, the /verify/text handler and the deepfake image detector.  *)
(*                                                                         *)
(* The specifications share the variables:                                 *)
(*   SpecVerdict   predict_ai_video applied to a pair of scores            *)
(*   SpecScores    analyze_fft / analyze_motion applied to a frame list    *)
(*   SpecSampler   one sample_frames call on a video file                  *)
(*   SpecDownload  download_youtube_video calls against VIDEOS_DIR         *)
(*   Spec          the video_analysis_records table behind                 *)
(*                 upsert_video_analysis_record / fetch_video_analysis_    *)
(*                 record, with the pool life cycle                        *)
(*   SpecUpserts   two upsert coroutines in flight for one URL             *)
(*   SpecRequests  two analysis requests in flight for one URL             *)
(*   SpecLifecycle init_db_pool / close_db_pool coroutines interleaved     *)
(*                 with the data functions of both tables                  *)
(*   SpecGemini    threads calling GeminiClientPool.acquire_client         *)
(*   SpecHandler   POST /verify/text requests, one after another           *)
(*   SpecDetector  detect_deepfake_image_bytes calls                       *)
(***************************************************************************)
EXTENDS Integers, Sequences, FiniteSets, TLC

VARIABLES
    verdict,    \* predict_ai_video: the last call, [fft_score, motion_score, motion_branch, result]
    frames,     \* the sampled frame list handed to the scorers
    fftOut,     \* analyze_fft(frames): "pending" or [outcome, value]
    motionOut,  \* analyze_motion(frames): "pending" or [outcome, value]
    pool,       \* db._pool: "None", "open", or the pool's name under SpecLifecycle
    table,      \* rows of video_analysis_records
    now,        \* the database clock, NOW()
    nextId,     \* the next value uuid4() hands out
    last,       \* the last db call: its name, arguments and outcome
    procs,      \* the coroutines in flight against the store, one record each
    sampler,    \* one sample_frames call: its file, its locals, its position
    dl,         \* download_youtube_video: VIDEOS_DIR and the calls made so far
    gpool,      \* one GeminiClientPool and the threads calling acquire_client
    handler,    \* one POST /verify/text request: what the verifier did, the response
    detector,   \* one detect_deepfake_image_bytes call: its input, its outcome
    starter,    \* init_db_pool / close_db_pool coroutines and the pools they made
    vtable,     \* rows of verification_records
    firstIds    \* history: per video_url, the id its first successful upsert returned

vars == << verdict, frames, fftOut, motionOut, pool, table, now, nextId, last,
          procs, sampler, dl, gpool, handler, detector, starter, vtable, firstIds>>
verdictVars == << verdict >>
scoreVars == <<frames, fftOut, motionOut>>
dbVars == <<pool, table, now, nextId, last>>
procVars == <<procs>>
samplerVars == <<sampler>>
dlVars == <<dl>>
otherVars == <<procs, sampler, dl>>
serviceVars == <<gpool, handler, detector>>
lifecycleVars == <<starter, vtable>>
historyVars == <<firstIds>>

(***************************************************************************)
(* Python values                                                           *)
(***************************************************************************)
\* Python None / SQL NULL for the optional text columns.
None == "<None>"

\* float('nan') among the scaled integer scores: a value outside the score range.
NaN == 0 - 1

\* Python float comparisons: every comparison with NaN is False.
PyLe(x, y) == x # NaN /\ y # NaN /\ x <= y
PyGe(x, y) == x # NaN /\ y # NaN /\ x >= y

(***************************************************************************)
(* predict_ai_video (check_video.py 295-308).  fft scores are in           *)
(* hundredths (0.62 is 62), motion scores in tenths (3.7 is 37).           *)
(***************************************************************************)
\* The two verdict labels (Korean text in the source): line 299/304 reads
\* "possibly AI-generated", line 301/306 reads "possibly a real video".
LIKELY_AI == "likely synthetic"
LIKELY_REAL == "likely authentic"
Unassigned == "<unassigned>"

MOTION_LOW == 37
MOTION_HIGH == 61
FFT_LOW == 50
FFT_HIGH == 62

\* Largest motion score (tenths) and fft score (hundredths) tried.
MaxMotion == 100
MaxFft == 100

FftScores == (0 .. MaxFft) \cup {NaN}
MotionScores == (0 .. MaxMotion) \cup {NaN}

\* Lines 298-301: the value of `result` after the motion if/elif.
MotionBranch(motion_score) ==
    IF PyLe(motion_score, MOTION_LOW) THEN LIKELY_AI
    ELSE IF PyGe(motion_score, MOTION_HIGH) THEN LIKELY_REAL
    ELSE Unassigned

\* A variant whose lower threshold is off by one hundredth.
ArtifactBranchNarrowBand(fft_score, before) ==
    IF PyLe(fft_score, FFT_LOW + 1) \/ PyGe(fft_score, FFT_HIGH) THEN LIKELY_AI
    ELSE LIKELY_REAL

\* Lines 303-306: the artifact if/else assigns `result` on both arms,
\* whatever the motion branch left in it.
ArtifactBranch(fft_score, before) ==
    IF PyLe(fft_score, FFT_LOW) \/ PyGe(fft_score, FFT_HIGH) THEN LIKELY_AI
    ELSE LIKELY_REAL

\* A variant in which a verdict assigned by the motion branch is kept.
predict_ai_video_motion_kept(fft_score, motion_score) ==
    LET before == MotionBranch(motion_score) IN
    IF before # Unassigned THEN before ELSE ArtifactBranch(fft_score, before)

predict_ai_video(fft_score, motion_score) ==
    ArtifactBranch(fft_score, MotionBranch(motion_score))

VerdictIdle == [called |-> FALSE]

PredictAiVideo ==
    \E a \in FftScores, m \in MotionScores :
        /\ verdict = VerdictIdle
        /\ verdict' = [called |-> TRUE,
                    fft_score |-> a,
                    motion_score |-> m,
                    motion_branch |-> MotionBranch(m),
                    result |-> predict_ai_video(a, m)]

(***************************************************************************)
(* Scores as exact fractions.  numpy divides floats: x / 0.0 with x = 0.0  *)
(* is nan (a RuntimeWarning, not an exception), so the fraction 0/0 stands *)
(* for nan.                                                                *)
(***************************************************************************)
RECURSIVE Gcd(_, _)
Gcd(a, b) == IF b = 0 THEN a ELSE Gcd(b, a % b)

Rat(n, d) ==
    IF d = 0 THEN [num |-> 0, den |-> 0]
    ELSE LET g == Gcd(n, d) IN [num |-> n \div g, den |-> d \div g]

RatNaN == [num |-> 0, den |-> 0]
RatZero == [num |-> 0, den |-> 1]
IsNaN(r) == r.den = 0

RatAdd(a, b) ==
    IF IsNaN(a) \/ IsNaN(b) THEN RatNaN
    ELSE Rat(a.num * b.den + b.num * a.den, a.den * b.den)

RECURSIVE RatSum(_)
RatSum(s) == IF s = <<>> THEN RatZero ELSE RatAdd(Head(s), RatSum(Tail(s)))

\* A variant that adds the values up and does not divide by their count.
NpSum(values) == RatSum(values)

\* A variant that folds the values into a running average, (avg + x) / 2.
RECURSIVE NpRunningMean(_)
NpRunningMean(values) ==
    IF values = <<>> THEN RatNaN
    ELSE IF Len(values) = 1 THEN values[1]
    ELSE LET t == RatAdd(NpRunningMean(SubSeq(values, 1, Len(values) - 1)),
                         values[Len(values)])
         IN IF IsNaN(t) THEN RatNaN ELSE Rat(t.num, t.den * 2)

\* np.mean(values): the sum over the count; the empty list gives 0.0 / 0 = nan.
NpMean(values) ==
    LET t == RatSum(values) IN
    IF IsNaN(t) THEN RatNaN ELSE Rat(t.num, t.den * Len(values))

(***************************************************************************)
(* Frames (check_video.py 253-289).  A frame is held as the h x w matrix   *)
(* of magnitudes np.abs(fftshift(fft2(frame))) that lines 254-256 obtain   *)
(* from the library; the all-zero frame has the all-zero matrix.           *)
(***************************************************************************)
FrameH == 8
FrameW == 8

ZeroFrame == [r \in 1 .. FrameH |-> [c \in 1 .. FrameW |-> 0]]
FlatFrame == [r \in 1 .. FrameH |-> [c \in 1 .. FrameW |-> 1]]
CentreFrame ==
    [r \in 1 .. FrameH |-> [c \in 1 .. FrameW |->
        IF r = FrameH \div 2 + 1 /\ c = FrameW \div 2 + 1 THEN 6 ELSE 0]]
MixedFrame ==
    [r \in 1 .. FrameH |-> [c \in 1 .. FrameW |->
        IF r = FrameH \div 2 + 1 /\ c = FrameW \div 2 + 1 THEN 3
        ELSE IF r = 1 /\ c = 1 THEN 1 ELSE 0]]

\* All of the energy in one corner cell, far from the centre.
EdgeFrame ==
    [r \in 1 .. FrameH |-> [c \in 1 .. FrameW |->
        IF r = 1 /\ c = 1 THEN 2 ELSE 0]]

FrameSet == {ZeroFrame, FlatFrame, CentreFrame, MixedFrame, EdgeFrame}

\* Longest frame list tried.
MaxFrames == 3

RECURSIVE SeqsUpTo(_, _)
SeqsUpTo(S, n) ==
    IF n = 0 THEN {<<>>}
    ELSE LET shorter == SeqsUpTo(S, n - 1) IN
         shorter \cup {Append(q, x) : q \in {t \in shorter : Len(t) = n - 1}, x \in S}

FrameLists == SeqsUpTo(FrameSet, MaxFrames)

Min(a, b) == IF a <= b THEN a ELSE b
Abs(x) == IF x < 0 THEN 0 - x ELSE x

RECURSIVE SumOver(_, _)
SumOver(cells, M) ==
    IF cells = {} THEN 0
    ELSE LET p == CHOOSE q \in cells : TRUE IN
         M[p[1]][p[2]] + SumOver(cells \ {p}, M)

Cells(M) == (1 .. Len(M)) \X (1 .. Len(M[1]))

\* Lines 257-261: the cells the mask keeps (True); rows and columns are
\* 0-based in the source, 1-based here.
MaskedCells(M) ==
    LET h == Len(M)
        w == Len(M[1])
        center_h == h \div 2
        center_w == w \div 2
        radius == Min(center_h, center_w) \div 4
    IN {p \in Cells(M) :
          ~ (/\ center_h - radius <= p[1] - 1 /\ p[1] - 1 < center_h + radius
             /\ center_w - radius <= p[2] - 1 /\ p[2] - 1 < center_w + radius)}

\* A variant without the total_energy == 0 test of line 266.
fft_artifact_score_unguarded(M) ==
    Rat(SumOver(MaskedCells(M), M), SumOver(Cells(M), M))

\* Lines 262-270.
fft_artifact_score(M) ==
    LET high_freq_energy == SumOver(MaskedCells(M), M)
        total_energy == SumOver(Cells(M), M)
    IN IF total_energy = 0 THEN RatZero
       ELSE Rat(high_freq_energy, total_energy)

\* Lines 273-275: the list comprehension, np.mean, float().  Neither raises
\* for a list of well-formed frames, the empty list included.
analyze_fft(fs) ==
    [outcome |-> "returned",
     value |-> NpMean([i \in 1 .. Len(fs) |-> fft_artifact_score(fs[i])])]

\* Lines 286-288: the mean flow magnitude of a pair, computed by OpenCV.
\* Stand-in: the mean absolute difference of the two matrices, which like
\* the library's value is non-negative and 0 for identical frames.
RECURSIVE SumAbsDiff(_, _, _)
SumAbsDiff(cells, A, B) ==
    IF cells = {} THEN 0
    ELSE LET p == CHOOSE q \in cells : TRUE IN
         Abs(A[p[1]][p[2]] - B[p[1]][p[2]]) + SumAbsDiff(cells \ {p}, A, B)

FlowMean(prev, curr) ==
    Rat(SumAbsDiff(Cells(prev), prev, curr), Len(prev) * Len(prev[1]))

\* Lines 281-289: one flow score per consecutive pair, range(1, len(frames)).
FlowScores(fs) ==
    [k \in 1 .. (IF Len(fs) = 0 THEN 0 ELSE Len(fs) - 1) |-> FlowMean(fs[k], fs[k + 1])]

analyze_motion(fs) ==
    [outcome |-> "returned", value |-> NpMean(FlowScores(fs))]

Pending == [outcome |-> "pending"]

AnalyzeFft ==
    /\ fftOut = Pending
    /\ fftOut' = analyze_fft(frames)
    /\ UNCHANGED <<frames, motionOut>>

AnalyzeMotion ==
    /\ motionOut = Pending
    /\ motionOut' = analyze_motion(frames)
    /\ UNCHANGED <<frames, fftOut>>

(***************************************************************************)
(* Text values of the store (db.py).  A URL is a tuple of characters so    *)
(* that str.strip() is computed; the other text columns are opaque.        *)
(***************************************************************************)
Whitespace == {" ", "\n"}

RECURSIVE LStrip(_)
LStrip(s) == IF s # <<>> /\ Head(s) \in Whitespace THEN LStrip(Tail(s)) ELSE s

RECURSIVE RStrip(_)
RStrip(s) ==
    IF s # <<>> /\ s[Len(s)] \in Whitespace THEN RStrip(SubSeq(s, 1, Len(s) - 1)) ELSE s

\* str.strip()
Strip(s) == RStrip(LStrip(s))

RawUrls == {<<"a">>, <<" ", "a", "\n">>, <<"b">>}

\* Optional[str] video ids: None, the empty string, a platform id.
VideoIds == {None, "", "x"}

\* Optional[list[str]]: None is the list holding only the None marker.
NoneList == <<None>>

\* json.dumps of a list of strings, as its tokens; json.loads of such text.
RECURSIVE JsonItems(_)
JsonItems(l) ==
    IF l = <<>> THEN <<>>
    ELSE IF Len(l) = 1 THEN <<[str |-> l[1]]>>
    ELSE <<[str |-> l[1]], ",">> \o JsonItems(Tail(l))

JsonDumps(l) == <<"[">> \o JsonItems(l) \o <<"]">>

JsonLoads(text) ==
    LET inner == SubSeq(text, 2, Len(text) - 1)
        n == (Len(inner) + 1) \div 2
    IN [i \in 1 .. n |-> inner[2 * i - 1].str]

\* Line 345: json.dumps(fact_urls or []).
UrlsJson(fact_urls) ==
    IF fact_urls = NoneList \/ fact_urls = <<>> THEN JsonDumps(<<>>) ELSE JsonDumps(fact_urls)

\* The columns an upsert call supplies besides video_url and video_id.
PayloadA ==
    [video_path |-> "/videos/x.mp4", fft_score |-> "0.55", motion_score |-> "8.0",
     ai_result |-> LIKELY_REAL, transcript |-> "hello", transcript_srt |-> "1 hello",
     duration |-> "12.5", fact_accuracy |-> "80%", fact_accuracy_reason |-> "sources agree",
     fact_reason |-> "matches", fact_urls |-> <<"https://s1", "https://s2">>,
     raw_fact_response |-> "raw-1"]

PayloadB ==
    [video_path |-> "/videos/y.mp4", fft_score |-> None, motion_score |-> None,
     ai_result |-> None, transcript |-> None, transcript_srt |-> None,
     duration |-> None, fact_accuracy |-> None, fact_accuracy_reason |-> None,
     fact_reason |-> None, fact_urls |-> NoneList, raw_fact_response |-> None]

Payloads == {PayloadA, PayloadB}

UpsertArgs ==
    {[video_url |-> u, video_id |-> v, payload |-> p] :
        u \in RawUrls, v \in VideoIds, p \in Payloads}

\* Upsert calls that reach the database, and the last clock value.
MaxIds == 3
MaxTime == 1

(***************************************************************************)
(* The table video_analysis_records (db.py 78-113): its rows, with the     *)
(* unique indexes on video_url and on video_id WHERE video_id IS NOT NULL. *)
(***************************************************************************)
RowsWithUrl(t, url) == {r \in t : r.video_url = url}
RowsWithVideoId(t, vid) == {r \in t : r.video_id = vid}

\* A variant without the index on video_id.
VideoIdIndexIgnored(t, vid) == FALSE

\* uq_video_analysis_video_id, lines 107-113: would a row with this
\* video_id collide with a row of t?
VideoIdIndexViolated(t, vid) == vid # None /\ RowsWithVideoId(t, vid) # {}

\* Lines 350-369: the row INSERT proposes; created_at and updated_at take
\* their DEFAULT NOW() (lines 96-97).
NewRow(record_id, args, ts) ==
    [id |-> record_id,
     video_url |-> Strip(args.video_url),
     video_id |-> args.video_id,
     video_path |-> args.payload.video_path,
     fft_score |-> args.payload.fft_score,
     motion_score |-> args.payload.motion_score,
     ai_result |-> args.payload.ai_result,
     transcript |-> args.payload.transcript,
     transcript_srt |-> args.payload.transcript_srt,
     duration |-> args.payload.duration,
     fact_accuracy |-> args.payload.fact_accuracy,
     fact_accuracy_reason |-> args.payload.fact_accuracy_reason,
     fact_reason |-> args.payload.fact_reason,
     fact_urls |-> UrlsJson(args.payload.fact_urls),
     raw_fact_response |-> args.payload.raw_fact_response,
     created_at |-> ts,
     updated_at |-> ts]

\* A variant whose SET list misses transcript_srt.
UpdatedRowKeepsSrt(old, excluded, ts) ==
    [old EXCEPT
        !.video_id = excluded.video_id,
        !.video_path = excluded.video_path,
        !.fft_score = excluded.fft_score,
        !.motion_score = excluded.motion_score,
        !.ai_result = excluded.ai_result,
        !.transcript = excluded.transcript,
        !.duration = excluded.duration,
        !.fact_accuracy = excluded.fact_accuracy,
        !.fact_accuracy_reason = excluded.fact_accuracy_reason,
        !.fact_reason = excluded.fact_reason,
        !.fact_urls = excluded.fact_urls,
        !.raw_fact_response = excluded.raw_fact_response,
        !.updated_at = ts]

\* A variant whose SET list also takes id from the proposed row.
UpdatedRowTakesNewId(old, excluded, ts) ==
    [excluded EXCEPT !.created_at = old.created_at, !.updated_at = ts]

\* Lines 371-385: DO UPDATE SET ... = EXCLUDED...., updated_at = NOW().
UpdatedRow(old, excluded, ts) ==
    [old EXCEPT
        !.video_id = excluded.video_id,
        !.video_path = excluded.video_path,
        !.fft_score = excluded.fft_score,
        !.motion_score = excluded.motion_score,
        !.ai_result = excluded.ai_result,
        !.transcript = excluded.transcript,
        !.transcript_srt = excluded.transcript_srt,
        !.duration = excluded.duration,
        !.fact_accuracy = excluded.fact_accuracy,
        !.fact_accuracy_reason = excluded.fact_accuracy_reason,
        !.fact_reason = excluded.fact_reason,
        !.fact_urls = excluded.fact_urls,
        !.raw_fact_response = excluded.raw_fact_response,
        !.updated_at = ts]

\* A variant without the ON CONFLICT (video_url) arm: every call inserts.
UpsertStatementInsertOnly(t, record_id, args, ts) ==
    LET excluded == NewRow(record_id, args, ts) IN
    IF VideoIdIndexViolated(t, excluded.video_id)
    THEN [outcome |-> "UniqueViolationError", table |-> t]
    ELSE [outcome |-> "ok", table |-> t \cup {excluded}, id |-> excluded.id]

\* Lines 348-403: INSERT ... ON CONFLICT (video_url) DO UPDATE ...
\* RETURNING id, as one statement: the new table and the id returned, or a
\* unique violation (asyncpg.UniqueViolationError) that changes nothing.
UpsertStatement(t, record_id, args, ts) ==
    LET excluded == NewRow(record_id, args, ts)
        hit == RowsWithUrl(t, excluded.video_url)
    IN IF hit = {}
       THEN IF VideoIdIndexViolated(t, excluded.video_id)
            THEN [outcome |-> "UniqueViolationError", table |-> t]
            ELSE [outcome |-> "ok", table |-> t \cup {excluded}, id |-> excluded.id]
       ELSE LET old == CHOOSE r \in hit : TRUE IN
            IF VideoIdIndexViolated(t \ {old}, excluded.video_id)
            THEN [outcome |-> "UniqueViolationError", table |-> t]
            ELSE [outcome |-> "ok",
                  table |-> (t \ {old}) \cup {UpdatedRow(old, excluded, ts)},
                  id |-> old.id]

\* Lines 286-320: the dict fetch returns for a row, fact_urls decoded.
RecordDict(r) == [r EXCEPT !.fact_urls = JsonLoads(r.fact_urls)]

\* A variant that asks the video_id query first.
FetchQueriesIdFirst(t, video_url, video_id) ==
    LET normalized_url == Strip(video_url)
        idQueried == video_id # None /\ video_id # ""
        byId == IF idQueried THEN RowsWithVideoId(t, video_id) ELSE {}
        rows == IF byId # {} THEN byId ELSE RowsWithUrl(t, normalized_url)
    IN IF rows = {}
       THEN [found |-> FALSE, idQueried |-> idQueried]
       ELSE [found |-> TRUE, idQueried |-> idQueried,
             record |-> RecordDict(CHOOSE r \in rows : TRUE)]

\* A variant without the video_id fallback.
FetchQueriesUrlOnly(t, video_url, video_id) ==
    LET rows == RowsWithUrl(t, Strip(video_url))
    IN IF rows = {}
       THEN [found |-> FALSE, idQueried |-> FALSE]
       ELSE [found |-> TRUE, idQueried |-> FALSE,
             record |-> RecordDict(CHOOSE r \in rows : TRUE)]

\* Lines 227-284: the URL query, then the video_id query when the first
\* missed and video_id is truthy.
FetchQueries(t, video_url, video_id) ==
    LET normalized_url == Strip(video_url)
        byUrl == RowsWithUrl(t, normalized_url)
        idQueried == byUrl = {} /\ video_id # None /\ video_id # ""
        byId == IF idQueried THEN RowsWithVideoId(t, video_id) ELSE {}
        rows == IF byUrl # {} THEN byUrl ELSE byId
    IN IF rows = {}
       THEN [found |-> FALSE, idQueried |-> idQueried]
       ELSE [found |-> TRUE, idQueried |-> idQueried,
             record |-> RecordDict(CHOOSE r \in rows : TRUE)]

(***************************************************************************)
(* The store's operations                                                  *)
(***************************************************************************)
\* Lines 43-114.  The schema statements are IF NOT EXISTS: the table and
\* its rows outlive the pool.
InitDbPool ==
    /\ pool' = "open"
    /\ UNCHANGED <<table, now, nextId, last>>

\* Lines 117-124.
CloseDbPool ==
    /\ pool' = None
    /\ UNCHANGED <<table, now, nextId, last>>

\* History only: does a call with these arguments repeat the call before it?
IsRepeat(args) ==
    last.op = "upsert" /\ last.outcome # "RuntimeError" /\ last.args = args

\* Lines 323-405.
UpsertVideoAnalysisRecord ==
    \E args \in UpsertArgs :
        IF pool = None
        THEN /\ last' = [op |-> "upsert", outcome |-> "RuntimeError"]
             /\ UNCHANGED <<pool, table, now, nextId>>
        ELSE /\ nextId <= MaxIds
             /\ LET res == UpsertStatement(table, nextId, args, now) IN
                /\ table' = res.table
                /\ last' = IF res.outcome = "ok"
                           THEN [op |-> "upsert", args |-> args, outcome |-> "ok",
                                 id |-> res.id, repeat |-> IsRepeat(args)]
                           ELSE [op |-> "upsert", args |-> args, outcome |-> res.outcome,
                                 repeat |-> IsRepeat(args)]
             /\ nextId' = nextId + 1
             /\ UNCHANGED <<pool, now>>

\* Lines 219-320.
FetchVideoAnalysisRecord ==
    \E video_url \in RawUrls, video_id \in VideoIds :
        /\ IF pool = None
           THEN last' = [op |-> "fetch", outcome |-> "RuntimeError"]
           ELSE last' = [op |-> "fetch", video_url |-> video_url, video_id |-> video_id,
                         outcome |-> "ok",
                         result |-> FetchQueries(table, video_url, video_id)]
        /\ UNCHANGED <<pool, table, now, nextId>>

\* Time passes between calls.
Tick ==
    /\ now < MaxTime
    /\ now' = now + 1
    /\ UNCHANGED <<pool, table, nextId, last>>

(***************************************************************************)
(* Idle values of the parts a specification leaves alone                   *)
(***************************************************************************)
\* No coroutine is in flight.
NoProcs == <<>>

\* sample_frames has not been called.
SamplerIdle == [pc |-> "idle"]

\* No GeminiClientPool has been built.
GPoolIdle == [keys |-> <<>>]

\* No request has reached verify_text.

\* detect_deepfake_image_bytes has not been called.

\* No init_db_pool or close_db_pool call is in flight.

\* The video_urls a stored row can have, and the history before any upsert
\* (0: no successful upsert for the URL yet; uuid4 values are 1, 2, ...).
NoFirstIds == [u \in {Strip(r) : r \in RawUrls} |-> 0]

\* History: a successful upsert for a URL without an earlier one is the
\* URL's first.
RecordFirstId ==
    firstIds' =
        IF last'.op = "upsert" /\ last'.outcome = "ok"
           /\ firstIds[Strip(last'.args.video_url)] = 0
        THEN [firstIds EXCEPT ![Strip(last'.args.video_url)] = last'.id]
        ELSE firstIds

(***************************************************************************)
(* sample_frames (check_video.py 236-247).  A video file either cannot be  *)
(* opened or holds a list of frames; of each frame the model keeps what    *)
(* the library does with it:                                               *)
(*   "ok"          cap.read() returns (True, frame), cv2.cvtColor converts *)
(*   "unreadable"  cap.read() returns (False, None)                        *)
(*   "malformed"   cap.read() returns (True, frame), cv2.cvtColor raises   *)
(*                 cv2.error                                               *)
(* A sampled frame is named by its index in the file.                      *)
(***************************************************************************)
\* Most frames in a file, and the largest sample_rate tried.
MaxTotal == 5
MaxStride == 3

FrameKinds == {"ok", "unreadable", "malformed"}

\* The files sample_frames may be given.
VideoFiles ==
    {[opens |-> FALSE, frames |-> <<>>]}
        \cup {[opens |-> TRUE, frames |-> fs] : fs \in SeqsUpTo(FrameKinds, MaxTotal)}

\* sample_rate; 0 makes range() raise ValueError.
SampleRates == 0 .. MaxStride

\* Line 237: cv2.VideoCapture(video_path) raises nothing when the file
\* cannot be opened; the capture it returns is not opened.
VideoCapture(file) == IF file.opens THEN "open" ELSE "not opened"

\* Line 239: cap.get(cv2.CAP_PROP_FRAME_COUNT) is 0.0 on a capture that is
\* not opened.
FrameCount(file) == IF file.opens THEN Len(file.frames) ELSE 0

\* A variant of range that ignores its step and visits every index.
RECURSIVE RangeEveryIndex(_, _, _)
RangeEveryIndex(start, stop, step) ==
    IF start >= stop THEN <<>>
    ELSE <<start>> \o RangeEveryIndex(start + 1, stop, step)

\* Line 240: range(start, stop, step) for step >= 1.
RECURSIVE Range(_, _, _)
Range(start, stop, step) ==
    IF start >= stop THEN <<>>
    ELSE <<start>> \o Range(start + step, stop, step)

\* Lines 237-240 up to the first iteration: open the capture, read the
\* frame count, build the range.
SampleFramesCall ==
    \E file \in VideoFiles, sample_rate \in SampleRates :
        /\ sampler = SamplerIdle
        /\ LET total_frames == FrameCount(file) IN
           sampler' =
               IF sample_rate = 0
               THEN [pc |-> "raised", exc |-> "ValueError",
                     file |-> file, sample_rate |-> sample_rate,
                     cap |-> VideoCapture(file), total_frames |-> total_frames,
                     todo |-> <<>>, attempts |-> <<>>, frames |-> <<>>]
               ELSE [pc |-> "loop", exc |-> None,
                     file |-> file, sample_rate |-> sample_rate,
                     cap |-> VideoCapture(file), total_frames |-> total_frames,
                     todo |-> Range(0, total_frames, sample_rate),
                     attempts |-> <<>>, frames |-> <<>>]

\* Lines 241-245: one iteration of the loop.
SampleFramesIteration ==
    /\ sampler.pc = "loop"
    /\ sampler.todo # <<>>
    /\ LET i == Head(sampler.todo)
           kind == sampler.file.frames[i + 1]
           seen == [sampler EXCEPT !.todo = Tail(@), !.attempts = Append(@, i)]
       IN sampler' =
              IF kind = "ok" THEN [seen EXCEPT !.frames = Append(@, i)]
              ELSE IF kind = "unreadable" THEN seen
              ELSE [seen EXCEPT !.pc = "raised", !.exc = "cv2.error"]

\* Lines 246-247: the loop is over; release the capture and return.
SampleFramesReturn ==
    /\ sampler.pc = "loop"
    /\ sampler.todo = <<>>
    /\ sampler' = [sampler EXCEPT !.pc = "returned", !.cap = "released"]

(***************************************************************************)
(* download_youtube_video (check_video.py 87-156) with                     *)
(* _resolve_cached_path (38-41).  A path in VIDEOS_DIR is held as          *)
(* [stem, suffix], the suffix without its dot.                             *)
(***************************************************************************)
\* Most download_youtube_video calls in a run.
MaxCalls == 5

\* What yt-dlp reports for a URL under the format "b[ext=mp4]/b" (line 102):
\* the video's id and the extension of the best single file, mp4 when the
\* site offers one.  parsed_video_id is what canonicalize_youtube_url found
\* in the URL (line 95).
Catalogue ==
    {[url |-> "u1", parsed_video_id |-> "v1", info |-> [id |-> "v1", ext |-> "mp4"]],
     [url |-> "u2", parsed_video_id |-> "v2", info |-> [id |-> "v2", ext |-> "webm"]],
     [url |-> "u3", parsed_video_id |-> None, info |-> [id |-> "v3", ext |-> "mkv"]],
     [url |-> "u4", parsed_video_id |-> None, info |-> [id |-> "v4", ext |-> "MP4"]]}

Urls == {v.url : v \in Catalogue}

\* str.lower() on the extensions of the catalogue.
Lower(s) == IF s = "MP4" THEN "mp4" ELSE s

\* Path.with_suffix.
WithSuffix(path, suffix) == [path EXCEPT !.suffix = suffix]

\* Lines 38-41.
resolve_cached_path(candidate) ==
    IF Lower(candidate.suffix) = "mp4" THEN candidate
    ELSE WithSuffix(candidate, "mp4")

\* ydl.prepare_filename(info) under outtmpl "%(id)s.%(ext)s" (line 99).
PrepareFilename(info) == [stem |-> info.id, suffix |-> info.ext]

\* Lines 122-125 and 141-144: defaults for a missing or empty id and ext.
InfoDefaults(info, parsed_video_id, fresh_uuid) ==
    [id |-> IF info.id \in {None, ""}
            THEN (IF parsed_video_id \in {None, ""} THEN fresh_uuid ELSE parsed_video_id)
            ELSE info.id,
     ext |-> IF info.ext \in {None, ""} THEN "mp4" ELSE info.ext]

NotCalled == [called |-> FALSE]

\* download_youtube_video has not been called; VIDEOS_DIR is empty.
DlIdle ==
    [files |-> {}, calls |-> 0, first |-> [u \in Urls |-> NotCalled],
     last |-> [op |-> "none"]]

\* Lines 87-156, one whole call.  extract_info(download=True) writes the
\* file yt-dlp names from its own info (id and ext) under outtmpl.
DownloadYoutubeVideo ==
    \E v \in Catalogue :
        /\ dl.calls < MaxCalls
        /\ LET info == InfoDefaults(v.info, v.parsed_video_id, "uuid4")
               cached_path == resolve_cached_path(PrepareFilename(info))
               hit == cached_path \in dl.files
               downloaded == InfoDefaults(v.info, v.parsed_video_id, "uuid4")
               actual_path == resolve_cached_path(PrepareFilename(downloaded))
               files == IF hit THEN dl.files
                        ELSE dl.files \cup {PrepareFilename(v.info)}
               result == [called |-> TRUE,
                          path |-> IF hit THEN cached_path ELSE actual_path,
                          video_id |-> IF hit THEN info.id ELSE downloaded.id]
           IN dl' = [files |-> files,
                     calls |-> dl.calls + 1,
                     first |-> IF dl.first[v.url].called THEN dl.first
                               ELSE [dl.first EXCEPT ![v.url] = result],
                     last |-> [op |-> "download", url |-> v.url,
                               later |-> dl.first[v.url].called,
                               download |-> ~ hit,
                               path |-> result.path,
                               video_id |-> result.video_id]]

(***************************************************************************)
(* Concurrent calls on the store.  db.py's functions are coroutines: one   *)
(* runs until it awaits, and another may run in between.                   *)
(* upsert_video_analysis_record (323-405) awaits the pool for a connection *)
(* (line 347) and the database for the row of its one statement (348-403), *)
(* which the database applies as a whole.  procs.call[p] is caller p's     *)
(* position, arguments and locals; procs.log lists the callers whose       *)
(* statement the database has applied, in that order.                      *)
(***************************************************************************)
\* The two coroutines in flight at once.
Callers == {1, 2}

\* The canonical URL the concurrent calls are about, and the arguments of
\* an upsert call for it.
SharedUrl == <<"a">>
SharedUrlArgs == {args \in UpsertArgs : Strip(args.video_url) = SharedUrl}

\* A record of another URL, stored before the calls start.
OtherRow ==
    NewRow(0, [video_url |-> <<"b">>, video_id |-> "x", payload |-> PayloadA], 0)

\* Caller p at position pc, about to use these arguments.
NewCall(pc, args) ==
    [pc |-> pc, args |-> args, record_id |-> 0, outcome |-> "none", id |-> 0]

SetCall(p, c) == [procs EXCEPT !.call[p] = c]

\* Lines 341-347: the pool test, uuid4(), json.dumps, then the await for a
\* connection.
UpsertBegin(p) ==
    /\ procs.call[p].pc = "upsert"
    /\ IF pool = None
       THEN /\ procs' = SetCall(p, [procs.call[p] EXCEPT !.pc = "raised",
                                                         !.outcome = "RuntimeError"])
            /\ UNCHANGED nextId
       ELSE /\ procs' = SetCall(p, [procs.call[p] EXCEPT !.pc = "acquire",
                                                         !.record_id = nextId])
            /\ nextId' = nextId + 1
    /\ UNCHANGED <<pool, table, now, last>>

\* Lines 348-403: the database applies the statement; the coroutine is
\* still waiting for the reply.
UpsertExecute(p) ==
    /\ procs.call[p].pc = "acquire"
    /\ LET c == procs.call[p]
           res == UpsertStatement(table, c.record_id, c.args, now)
       IN /\ table' = res.table
          /\ procs' =
                 IF res.outcome = "ok"
                 THEN [call |-> [procs.call EXCEPT ![p] =
                                     [c EXCEPT !.pc = "executed", !.outcome = "ok",
                                               !.id = res.id]],
                       log |-> Append(procs.log, p)]
                 ELSE SetCall(p, [c EXCEPT !.pc = "raised", !.outcome = res.outcome])
    /\ UNCHANGED <<pool, now, nextId, last>>

\* Lines 404-405: the reply has arrived; return row["id"].
UpsertReturn(p) ==
    /\ procs.call[p].pc = "executed"
    /\ procs' = SetCall(p, [procs.call[p] EXCEPT !.pc = "returned"])
    /\ UNCHANGED <<pool, table, now, nextId, last>>

(***************************************************************************)
(* An analysis request (spec section 5: read, then maybe compute, then     *)
(* write; the caller of db.py's two functions).  It fetches the record of  *)
(* its URL, on a miss runs the scoring pipeline, and upserts the result.   *)
(* Nothing in fetch_video_analysis_record (219-284) or in                  *)
(* upsert_video_analysis_record (323-405) takes a lock for the URL.        *)
(***************************************************************************)
\* fetch_video_analysis_record(video_url, video_id) and what the request
\* does with the answer.
RequestFetch(p) ==
    /\ procs.call[p].pc = "fetch"
    /\ LET c == procs.call[p]
           res == FetchQueries(table, c.args.video_url, c.args.video_id)
       IN procs' = SetCall(p, [c EXCEPT !.pc = IF res.found THEN "cached" ELSE "pipeline"])
    /\ UNCHANGED <<pool, table, now, nextId, last>>

\* The pipeline (download, sampling, scoring) has produced the values the
\* request will store.
RequestPipeline(p) ==
    /\ procs.call[p].pc = "pipeline"
    /\ procs' = SetCall(p, [procs.call[p] EXCEPT !.pc = "upsert"])
    /\ UNCHANGED <<pool, table, now, nextId, last>>

(***************************************************************************)
(* GeminiClientPool (gemini_service.py 132-161).  Threads of the server's  *)
(* thread pool call acquire_client; a thread may be preempted between any  *)
(* two statements, and self._lock admits one thread at a time.             *)
(* A client is [api_key, serial]: serial numbers the genai.Client          *)
(* constructions in the order they happen.  The dict self._clients is held *)
(* as its set of <<key, client>> items.                                    *)
(***************************************************************************)
\* Most keys in a pool, and most acquire_client calls in a run.
MaxKeys == 3
MaxAcquires == 5

Threads == {1, 2, 3}

\* The key lists _discover_gemini_api_keys (lines 99-129) can hand to the
\* constructor: stripped, non-empty, without duplicates, in order.
KeyNames == <<"k1", "k2", "k3", "k4", "k5">>
KeyLists == {SubSeq(KeyNames, 1, n) : n \in 1 .. MaxKeys}

NoClient == [api_key |-> None, serial |-> 0]

\* A lookup that never finds an item.
DictGetMisses(d, key) == NoClient

\* dict.get(key) on a set of items.
DictGet(d, key) ==
    IF \E e \in d : e[1] = key THEN (CHOOSE e \in d : e[1] = key)[2] ELSE NoClient

ThreadIdle == [pc |-> "idle", ticket |-> 0, key |-> None, client |-> NoClient]

\* Lines 135-145: the pool after __init__, no thread inside acquire_client.
\* entered, constructed and returned are history: the number of calls that
\* have entered the lock, the clients constructed, and what each finished
\* call returned.
NewGeminiClientPool(api_keys) ==
    [keys |-> api_keys, clients |-> {}, lock |-> 0, index |-> 0,
     thread |-> [t \in Threads |-> ThreadIdle],
     entered |-> 0, constructed |-> <<>>, returned |-> <<>>]

\* A variant of the lock that admits every thread at once.
LockAdmitsAll(lock) == TRUE

\* threading.Lock: acquire succeeds when no thread holds it.
LockAdmits(lock) == lock = 0

\* Line 148: with self._lock (enter).
AcquireEnter(t) ==
    /\ gpool.thread[t].pc = "idle"
    /\ gpool.entered < MaxAcquires
    /\ LockAdmits(gpool.lock)
    /\ gpool' = [gpool EXCEPT !.lock = t,
                              !.entered = @ + 1,
                              !.thread[t] = [ThreadIdle EXCEPT !.pc = "key",
                                                                !.ticket = gpool.entered]]

\* Line 149: key = self._keys[self._index].
AcquireReadKey(t) ==
    /\ gpool.thread[t].pc = "key"
    /\ gpool' = [gpool EXCEPT !.thread[t].pc = "index",
                              !.thread[t].key = gpool.keys[gpool.index + 1]]

\* Line 150: self._index = (self._index + 1) % len(self._keys).
AcquireAdvance(t) ==
    /\ gpool.thread[t].pc = "index"
    /\ gpool' = [gpool EXCEPT !.index = (gpool.index + 1) % Len(gpool.keys),
                              !.thread[t].pc = "get"]

\* Lines 152-153: client = self._clients.get(key).
AcquireGet(t) ==
    /\ gpool.thread[t].pc = "get"
    /\ LET client == DictGet(gpool.clients, gpool.thread[t].key)
       IN gpool' = [gpool EXCEPT
                       !.thread[t].client = client,
                       !.thread[t].pc = IF client = NoClient THEN "construct" ELSE "exit"]

\* Lines 154-155: client = genai.Client(api_key=key); self._clients[key] = client.
AcquireConstruct(t) ==
    /\ gpool.thread[t].pc = "construct"
    /\ LET client == [api_key |-> gpool.thread[t].key,
                      serial |-> Len(gpool.constructed) + 1]
       IN gpool' = [gpool EXCEPT !.clients = {e \in @ : e[1] # client.api_key} \cup {<<client.api_key, client>>},
                                 !.constructed = Append(@, client),
                                 !.thread[t].client = client,
                                 !.thread[t].pc = "exit"]

\* Line 148: with self._lock (exit).
AcquireExit(t) ==
    /\ gpool.thread[t].pc = "exit"
    /\ gpool' = [gpool EXCEPT !.lock = IF @ = t THEN 0 ELSE @,
                              !.thread[t].pc = "return"]

\* Line 157: return client.
AcquireReturn(t) ==
    /\ gpool.thread[t].pc = "return"
    /\ gpool' = [gpool EXCEPT !.returned = Append(@, [ticket |-> gpool.thread[t].ticket,
                                                      client |-> gpool.thread[t].client]),
                              !.thread[t] = ThreadIdle]

(***************************************************************************)
(* POST /verify/text (main.py 120-157, schemas.py 32-42).  The server      *)
(* answers one request after another; served is the history of the        *)
(* answers: what the verifier did and the response the client received.    *)
(***************************************************************************)
\* Most requests in a run.
MaxRequests == 3

\* What verifier.verify (line 130) can do: return a VerificationResult,
\* return a mapping that validates as one, or raise.
VerifierOutcomes ==
    {"VerificationResult", "mapping", "GeminiConfigurationError",
     "GeminiVerificationError", "Exception"}
VerifierReturns == {"VerificationResult", "mapping"}

\* schemas.py 32-42: the fields of VerificationResponse without a default.
VerificationResponseRequired == {"result", "record_id"}

\* pydantic BaseModel.__init__: a required field that is not passed raises
\* ValidationError.
NewVerificationResponse(kwargs) ==
    IF VerificationResponseRequired \subseteq DOMAIN kwargs
    THEN [raised |-> None, model |-> kwargs]
    ELSE [raised |-> "ValidationError", model |-> None]

\* The response the client receives: FastAPI turns HTTPException into its
\* status code, any other exception that leaves the handler into 500, and a
\* returned model into status_code=200 (line 124).
HttpError(code) == [status |-> code, body |-> None]
HttpOk(model) == [status |-> 200, body |-> model]

Served(outcome, response) ==
    [handler EXCEPT !.pc = "idle",
                    !.served = Append(@, [outcome |-> outcome, raw |-> handler.raw,
                                          response |-> response])]

NewHandler == [pc |-> "idle", outcome |-> None, result |-> None, raw |-> None, served |-> <<>>]

\* Lines 124-127: a request arrives.
VerifyTextRequest ==
    /\ handler.pc = "idle"
    /\ Len(handler.served) < MaxRequests
    /\ handler' = [handler EXCEPT !.pc = "verify", !.outcome = None,
                                  !.result = None, !.raw = None]

\* Lines 129-140: the call of verifier.verify and the three except clauses.
VerifyTextVerify ==
    /\ handler.pc = "verify"
    /\ \E outcome \in VerifierOutcomes, raw \in {None, "raw"} :
          handler' =
              CASE outcome \in VerifierReturns ->
                       [handler EXCEPT !.pc = "validate", !.outcome = outcome,
                                       !.result = outcome, !.raw = raw]
                [] outcome = "GeminiVerificationError" ->
                       [Served(outcome, HttpError(502)) EXCEPT !.outcome = outcome]
                [] OTHER ->
                       [Served(outcome, HttpError(500)) EXCEPT !.outcome = outcome]

\* Lines 142-145: a result of another type is validated into a VerificationResult.
VerifyTextValidate ==
    /\ handler.pc = "validate"
    /\ handler' = [handler EXCEPT !.pc = "respond", !.result = "VerificationResult"]

\* Line 157: return VerificationResponse(result=result, raw_model_response=raw_response).
VerifyTextRespond ==
    /\ handler.pc = "respond"
    /\ LET built == NewVerificationResponse([result |-> handler.result,
                                             raw_model_response |-> handler.raw])
       IN handler' = Served(handler.outcome,
                            IF built.raised = None THEN HttpOk(built.model)
                            ELSE HttpError(500))

(***************************************************************************)
(* The pool's life cycle and the verification_records functions (db.py     *)
(* 43-59, 117-216).  init_db_pool and close_db_pool are coroutines: each   *)
(* runs without interruption up to its next await, where any other         *)
(* coroutine may run.  Here pool holds the identity of the asyncpg pool    *)
(* that _pool refers to; starter holds the coroutines in flight, the pools *)
(* created so far (in order) and the pools closed.                         *)
(***************************************************************************)
\* Most init_db_pool / close_db_pool calls in a run, and most
\* verification_records rows.
MaxLifecycleCalls == 3
MaxRecords == 1

Coroutines == {1, 2}

PoolNames == <<"pool1", "pool2", "pool3", "pool4", "pool5", "pool6">>

\* n numbers the calls in the order they start.
CallIdle == [op |-> "none", n |-> 0, pc |-> "idle", ref |-> None, result |-> "none"]

NewStarter ==
    [call |-> [c \in Coroutines |-> CallIdle], calls |-> 0, created |-> <<>>, closed |-> {}]

\* A guard that lets every call through.
PoolMissingNever(p) == FALSE

\* Lines 138-139 and 170-171: if _pool is None: raise RuntimeError(...).
PoolMissing(p) == p = None

\* Lines 43-47: init_db_pool up to its first await; with a pool in place the
\* call returns at once.
InitCheck(c) ==
    /\ starter.call[c].pc = "idle"
    /\ starter.calls < MaxLifecycleCalls
    /\ starter' = [starter EXCEPT
                      !.calls = @ + 1,
                      !.call[c] = IF pool # None
                                  THEN [CallIdle EXCEPT !.op = "init", !.n = starter.calls + 1,
                                                        !.result = "returned"]
                                  ELSE [CallIdle EXCEPT !.op = "init", !.n = starter.calls + 1,
                                                        !.pc = "create_pool"]]
    /\ UNCHANGED <<pool, table, vtable, now, nextId, last>>

\* Line 59: asyncpg.create_pool completes and _pool is assigned; line 61
\* takes a connection of that pool.
InitCreatePool(c) ==
    /\ starter.call[c].pc = "create_pool"
    /\ LET created == PoolNames[Len(starter.created) + 1] IN
       /\ pool' = created
       /\ starter' = [starter EXCEPT !.created = Append(@, created),
                                     !.call[c].pc = "schema",
                                     !.call[c].ref = created]
    /\ UNCHANGED <<table, vtable, now, nextId, last>>

\* Lines 61-114: the CREATE ... IF NOT EXISTS statements complete.
InitSchema(c) ==
    /\ starter.call[c].pc = "schema"
    /\ starter' = [starter EXCEPT
                      !.call[c].pc = "idle",
                      !.call[c].result = IF starter.call[c].ref \in starter.closed
                                         THEN "InterfaceError" ELSE "returned"]
    /\ UNCHANGED <<pool, table, vtable, now, nextId, last>>

\* Lines 117-122: close_db_pool up to its await; without a pool the call
\* returns at once.
CloseCheck(c) ==
    /\ starter.call[c].pc = "idle"
    /\ starter.calls < MaxLifecycleCalls
    /\ starter' = [starter EXCEPT
                      !.calls = @ + 1,
                      !.call[c] = IF pool = None
                                  THEN [CallIdle EXCEPT !.op = "close", !.n = starter.calls + 1,
                                                        !.result = "returned"]
                                  ELSE [CallIdle EXCEPT !.op = "close", !.n = starter.calls + 1,
                                                        !.pc = "close", !.ref = pool]]
    /\ UNCHANGED <<pool, table, vtable, now, nextId, last>>

\* Lines 122-124: _pool.close() completes and _pool is set to None.
ClosePool(c) ==
    /\ starter.call[c].pc = "close"
    /\ pool' = None
    /\ starter' = [starter EXCEPT !.closed = @ \cup {starter.call[c].ref},
                                  !.call[c].pc = "idle",
                                  !.call[c].result = "returned"]
    /\ UNCHANGED <<table, vtable, now, nextId, last>>

\* The arguments of insert_verification_record (lines 127-135).
VerificationArgs ==
    {[input_text |-> "t", accuracy |-> "82%", accuracy_reason |-> ar,
      reason |-> "r", urls |-> <<"u">>, raw_response |-> None] : ar \in {None}}

\* Lines 143-163: the row the INSERT stores (created_at defaults to now()).
VerificationRow(record_id, args, ts) ==
    [id |-> record_id, input_text |-> args.input_text, accuracy |-> args.accuracy,
     accuracy_reason |-> args.accuracy_reason, reason |-> args.reason,
     urls |-> args.urls, raw_model_response |-> args.raw_response, created_at |-> ts]

\* Lines 127-165.
InsertVerificationRecord ==
    \E args \in VerificationArgs :
        IF PoolMissing(pool)
        THEN /\ last' = [op |-> "insert_verification", outcome |-> "RuntimeError"]
             /\ UNCHANGED <<pool, table, vtable, now, nextId, starter>>
        ELSE /\ Cardinality(vtable) < MaxRecords
             /\ LET record_id == Cardinality(vtable) + 1 IN
                /\ vtable' = vtable \cup {VerificationRow(record_id, args, now)}
                /\ last' = [op |-> "insert_verification", outcome |-> "ok", id |-> record_id]
             /\ UNCHANGED <<pool, table, now, nextId, starter>>

\* Lines 168-216.
FetchVerificationRecord ==
    \E record_id \in 1 .. MaxRecords :
        /\ IF PoolMissing(pool)
           THEN last' = [op |-> "fetch_verification", outcome |-> "RuntimeError"]
           ELSE last' = [op |-> "fetch_verification", outcome |-> "ok",
                         result |-> IF \E r \in vtable : r.id = record_id
                                    THEN CHOOSE r \in vtable : r.id = record_id
                                    ELSE None]
        /\ UNCHANGED <<pool, table, vtable, now, nextId, starter>>

\* The one upsert used together with the life cycle.
LifecycleUpsertArgs ==
    {args \in UpsertArgs :
        args.video_url = <<"a">> /\ args.video_id = "x" /\ args.payload = PayloadA}

(***************************************************************************)
(* detect_deepfake_image_bytes (deepfake_detector.py 15-92).  The input    *)
(* bytes are described by what PIL and the model do with them.             *)
(* Probabilities are integers in units of 1/100000; rounded values are in  *)
(* units of 1/10000.  The verdict strings are shortened to their first     *)
(* word, the error messages to a tag.                                      *)
(***************************************************************************)
ProbUnit == 100000

\* probs[0] of the softmax; probs[1] is the rest of the unit.
FakeProbs == {0, 12344, 12345, 49999, 50000, 50001, 87655, 100000}

\* What Image.open does with the bytes: "empty" is b"", "unidentified" raises
\* UnidentifiedImageError, "oserror" raises OSError, "bomb" raises
\* DecompressionBombError (a header that declares more than twice
\* Image.MAX_IMAGE_PIXELS pixels), "animated" and "static" open.
ByteKinds == {"empty", "unidentified", "oserror", "bomb", "animated", "static"}

FileBytes ==
    {[kind |-> k, mode |-> "RGB", convert_raises |-> FALSE, model_raises |-> FALSE,
      fake |-> 0] : k \in ByteKinds \ {"static"}}
    \cup {[kind |-> "static", mode |-> md, convert_raises |-> cr, model_raises |-> mr,
           fake |-> f] :
             md \in {"RGB", "L"}, cr \in BOOLEAN, mr \in BOOLEAN, f \in FakeProbs}

\* Python round(x, 4), on a value in units of 1/100000: half to even.
Round4(p) ==
    LET q == p \div 10
        r == p % 10
    IN IF r > 5 \/ (r = 5 /\ q % 2 = 1) THEN q + 1 ELSE q

\* Lines 15-24.
error_result(message) ==
    [success |-> FALSE, verdict |-> None, confidence |-> None, fake_prob |-> None,
     real_prob |-> None, error |-> message]

\* Lines 60-82.
success_result(fake_prob_raw, real_prob_raw) ==
    LET confidence_raw == IF fake_prob_raw >= real_prob_raw
                          THEN fake_prob_raw ELSE real_prob_raw
    IN [success |-> TRUE,
        verdict |-> IF fake_prob_raw >= real_prob_raw THEN "Fake" ELSE "Real",
        confidence |-> Round4(confidence_raw),
        fake_prob |-> Round4(fake_prob_raw),
        real_prob |-> Round4(real_prob_raw),
        error |-> None]

NewDetector ==
    [pc |-> "idle", file_bytes |-> None, image |-> "none", processed_image |-> "none",
     result |-> None, raised |-> None]

\* Lines 27-30.
DetectCall ==
    /\ detector.pc \in {"idle", "returned", "raised"}
    /\ \E file_bytes \in FileBytes :
          detector' =
              IF file_bytes.kind = "empty"
              THEN [NewDetector EXCEPT !.pc = "returned", !.file_bytes = file_bytes,
                                       !.result = error_result("empty")]
              ELSE [NewDetector EXCEPT !.pc = "open", !.file_bytes = file_bytes]

\* Lines 32-42.
DetectOpen ==
    /\ detector.pc = "open"
    /\ LET kind == detector.file_bytes.kind IN
       detector' =
           CASE kind = "unidentified" ->
                    [detector EXCEPT !.pc = "returned", !.result = error_result("unidentified")]
             [] kind = "oserror" ->
                    [detector EXCEPT !.pc = "returned", !.result = error_result("unopenable")]
             [] kind = "bomb" ->
                    [detector EXCEPT !.pc = "raised", !.raised = "DecompressionBombError"]
             [] OTHER ->
                    [detector EXCEPT !.pc = "try", !.image = "open"]

\* Lines 44-88: the body of the second try and its except clause.
DetectTry ==
    /\ detector.pc = "try"
    /\ LET b == detector.file_bytes
           converts == b.kind # "animated" /\ b.mode # "RGB"
       IN detector' =
           [detector EXCEPT
               !.pc = "finally",
               !.processed_image =
                   CASE b.kind = "animated" -> "none"
                     [] converts /\ b.convert_raises -> "none"
                     [] converts -> "open"
                     [] OTHER -> "image",
               !.result =
                   CASE b.kind = "animated" -> error_result("animated")
                     [] converts /\ b.convert_raises -> error_result("failure")
                     [] b.model_raises -> error_result("failure")
                     [] OTHER -> success_result(b.fake, ProbUnit - b.fake)]

\* Lines 89-92.
DetectFinally ==
    /\ detector.pc = "finally"
    /\ detector' = [detector EXCEPT
                       !.pc = "returned",
                       !.processed_image = IF @ = "open" THEN "closed" ELSE @,
                       !.image = "closed"]

(***************************************************************************)
(* Specifications                                                          *)
(***************************************************************************)
\* predict_ai_video has not been called; the scorers have nothing to score;
\* db.py as imported: no pool (line 12), an empty table.
InitVerdict ==
    /\ verdict = VerdictIdle
    /\ frames = <<>>
    /\ fftOut = Pending
    /\ motionOut = Pending
    /\ pool = None
    /\ table = {}
    /\ now = 0
    /\ nextId = 1
    /\ last = [op |-> "none", outcome |-> "none"]
    /\ procs = NoProcs
    /\ sampler = SamplerIdle
    /\ dl = DlIdle
    /\ gpool = GPoolIdle
    /\ handler = NewHandler
    /\ detector = NewDetector
    /\ starter = NewStarter
    /\ vtable = {}
    /\ firstIds = NoFirstIds

NextVerdict == PredictAiVideo /\ UNCHANGED scoreVars /\ UNCHANGED dbVars /\ UNCHANGED otherVars /\ UNCHANGED <<serviceVars, lifecycleVars, historyVars>>
SpecVerdict == InitVerdict /\ [][NextVerdict]_vars

\* Any frame list up to MaxFrames frames, not yet scored.
InitScores ==
    /\ verdict = VerdictIdle
    /\ frames \in FrameLists
    /\ fftOut = Pending
    /\ motionOut = Pending
    /\ pool = None
    /\ table = {}
    /\ now = 0
    /\ nextId = 1
    /\ last = [op |-> "none", outcome |-> "none"]
    /\ procs = NoProcs
    /\ sampler = SamplerIdle
    /\ dl = DlIdle
    /\ gpool = GPoolIdle
    /\ handler = NewHandler
    /\ detector = NewDetector
    /\ starter = NewStarter
    /\ vtable = {}
    /\ firstIds = NoFirstIds

NextScores ==
    \/ AnalyzeFft /\ UNCHANGED verdictVars /\ UNCHANGED dbVars /\ UNCHANGED otherVars /\ UNCHANGED <<serviceVars, lifecycleVars, historyVars>>
    \/ AnalyzeMotion /\ UNCHANGED verdictVars /\ UNCHANGED dbVars /\ UNCHANGED otherVars /\ UNCHANGED <<serviceVars, lifecycleVars, historyVars>>
SpecScores == InitScores /\ [][NextScores]_vars

\* db.py as imported: no pool (line 12); the database holds no rows yet.
Init ==
    /\ verdict = VerdictIdle
    /\ frames = <<>>
    /\ fftOut = Pending
    /\ motionOut = Pending
    /\ pool = None
    /\ table = {}
    /\ now = 0
    /\ nextId = 1
    /\ last = [op |-> "none", outcome |-> "none"]
    /\ procs = NoProcs
    /\ sampler = SamplerIdle
    /\ dl = DlIdle
    /\ gpool = GPoolIdle
    /\ handler = NewHandler
    /\ detector = NewDetector
    /\ starter = NewStarter
    /\ vtable = {}
    /\ firstIds = NoFirstIds

Next ==
    \/ InitDbPool /\ UNCHANGED verdictVars /\ UNCHANGED scoreVars /\ UNCHANGED otherVars /\ UNCHANGED <<serviceVars, lifecycleVars, historyVars>>
    \/ CloseDbPool /\ UNCHANGED verdictVars /\ UNCHANGED scoreVars /\ UNCHANGED otherVars /\ UNCHANGED <<serviceVars, lifecycleVars, historyVars>>
    \/ UpsertVideoAnalysisRecord /\ UNCHANGED verdictVars /\ UNCHANGED scoreVars /\ UNCHANGED otherVars /\ RecordFirstId /\ UNCHANGED <<serviceVars, lifecycleVars>>
    \/ FetchVideoAnalysisRecord /\ UNCHANGED verdictVars /\ UNCHANGED scoreVars /\ UNCHANGED otherVars /\ UNCHANGED <<serviceVars, lifecycleVars, historyVars>>
    \/ Tick /\ UNCHANGED verdictVars /\ UNCHANGED scoreVars /\ UNCHANGED otherVars /\ UNCHANGED <<serviceVars, lifecycleVars, historyVars>>
Spec == Init /\ [][Next]_vars

\* One sample_frames call, every file and sample_rate.
InitSampler ==
    /\ verdict = VerdictIdle
    /\ frames = <<>>
    /\ fftOut = Pending
    /\ motionOut = Pending
    /\ pool = None
    /\ table = {}
    /\ now = 0
    /\ nextId = 1
    /\ last = [op |-> "none", outcome |-> "none"]
    /\ procs = NoProcs
    /\ sampler = SamplerIdle
    /\ dl = DlIdle
    /\ gpool = GPoolIdle
    /\ handler = NewHandler
    /\ detector = NewDetector
    /\ starter = NewStarter
    /\ vtable = {}
    /\ firstIds = NoFirstIds

NextSampler ==
    \/ SampleFramesCall /\ UNCHANGED << verdictVars, scoreVars, dbVars, procVars, dlVars>> /\ UNCHANGED <<serviceVars, lifecycleVars, historyVars>>
    \/ SampleFramesIteration /\ UNCHANGED << verdictVars, scoreVars, dbVars, procVars, dlVars>> /\ UNCHANGED <<serviceVars, lifecycleVars, historyVars>>
    \/ SampleFramesReturn /\ UNCHANGED << verdictVars, scoreVars, dbVars, procVars, dlVars>> /\ UNCHANGED <<serviceVars, lifecycleVars, historyVars>>
SpecSampler == InitSampler /\ [][NextSampler]_vars

\* No download_youtube_video call has been made; VIDEOS_DIR is empty.
InitDownload ==
    /\ verdict = VerdictIdle
    /\ frames = <<>>
    /\ fftOut = Pending
    /\ motionOut = Pending
    /\ pool = None
    /\ table = {}
    /\ now = 0
    /\ nextId = 1
    /\ last = [op |-> "none", outcome |-> "none"]
    /\ procs = NoProcs
    /\ sampler = SamplerIdle
    /\ dl = DlIdle
    /\ gpool = GPoolIdle
    /\ handler = NewHandler
    /\ detector = NewDetector
    /\ starter = NewStarter
    /\ vtable = {}
    /\ firstIds = NoFirstIds

NextDownload ==
    DownloadYoutubeVideo /\ UNCHANGED << verdictVars, scoreVars, dbVars, procVars, samplerVars>> /\ UNCHANGED <<serviceVars, lifecycleVars, historyVars>>
SpecDownload == InitDownload /\ [][NextDownload]_vars

\* The pool is open (init_db_pool ran at startup); the table is empty or
\* holds one record of another URL; every caller is about to call
\* upsert_video_analysis_record for the shared URL.
InitUpserts ==
    /\ verdict = VerdictIdle
    /\ frames = <<>>
    /\ fftOut = Pending
    /\ motionOut = Pending
    /\ pool = "open"
    /\ table \in {{}, {OtherRow}}
    /\ now = 0
    /\ nextId = 1
    /\ last = [op |-> "none", outcome |-> "none"]
    /\ procs \in {[call |-> c, log |-> <<>>] :
                     c \in [Callers -> {NewCall("upsert", args) : args \in SharedUrlArgs}]}
    /\ sampler = SamplerIdle
    /\ dl = DlIdle
    /\ gpool = GPoolIdle
    /\ handler = NewHandler
    /\ detector = NewDetector
    /\ starter = NewStarter
    /\ vtable = {}
    /\ firstIds = NoFirstIds

NextUpserts ==
    \/ \E p \in Callers : UpsertBegin(p) /\ UNCHANGED << verdictVars, scoreVars, samplerVars, dlVars>> /\ UNCHANGED <<serviceVars, lifecycleVars, historyVars>>
    \/ \E p \in Callers : UpsertExecute(p) /\ UNCHANGED << verdictVars, scoreVars, samplerVars, dlVars>> /\ UNCHANGED <<serviceVars, lifecycleVars, historyVars>>
    \/ \E p \in Callers : UpsertReturn(p) /\ UNCHANGED << verdictVars, scoreVars, samplerVars, dlVars>> /\ UNCHANGED <<serviceVars, lifecycleVars, historyVars>>
    \/ Tick /\ UNCHANGED << verdictVars, scoreVars, procVars, samplerVars, dlVars>> /\ UNCHANGED <<serviceVars, lifecycleVars, historyVars>>
SpecUpserts == InitUpserts /\ [][NextUpserts]_vars

\* The pool is open, nothing is stored, and two requests for the shared
\* URL (spelled either way) and one video_id are about to fetch.
InitRequests ==
    /\ verdict = VerdictIdle
    /\ frames = <<>>
    /\ fftOut = Pending
    /\ motionOut = Pending
    /\ pool = "open"
    /\ table = {}
    /\ now = 0
    /\ nextId = 1
    /\ last = [op |-> "none", outcome |-> "none"]
    /\ procs \in {[call |-> c, log |-> <<>>] :
                     c \in {f \in [Callers -> {NewCall("fetch", args) : args \in SharedUrlArgs}] :
                               \A p \in Callers, q \in Callers :
                                   f[p].args.video_id = f[q].args.video_id}}
    /\ sampler = SamplerIdle
    /\ dl = DlIdle
    /\ gpool = GPoolIdle
    /\ handler = NewHandler
    /\ detector = NewDetector
    /\ starter = NewStarter
    /\ vtable = {}
    /\ firstIds = NoFirstIds

NextRequests ==
    \/ \E p \in Callers : RequestFetch(p) /\ UNCHANGED << verdictVars, scoreVars, samplerVars, dlVars>> /\ UNCHANGED <<serviceVars, lifecycleVars, historyVars>>
    \/ \E p \in Callers : RequestPipeline(p) /\ UNCHANGED << verdictVars, scoreVars, samplerVars, dlVars>> /\ UNCHANGED <<serviceVars, lifecycleVars, historyVars>>
    \/ \E p \in Callers : UpsertBegin(p) /\ UNCHANGED << verdictVars, scoreVars, samplerVars, dlVars>> /\ UNCHANGED <<serviceVars, lifecycleVars, historyVars>>
    \/ \E p \in Callers : UpsertExecute(p) /\ UNCHANGED << verdictVars, scoreVars, samplerVars, dlVars>> /\ UNCHANGED <<serviceVars, lifecycleVars, historyVars>>
    \/ \E p \in Callers : UpsertReturn(p) /\ UNCHANGED << verdictVars, scoreVars, samplerVars, dlVars>> /\ UNCHANGED <<serviceVars, lifecycleVars, historyVars>>
    \/ Tick /\ UNCHANGED << verdictVars, scoreVars, procVars, samplerVars, dlVars>> /\ UNCHANGED <<serviceVars, lifecycleVars, historyVars>>
SpecRequests == InitRequests /\ [][NextRequests]_vars

\* A pool just built from 1 to MaxKeys keys; any thread may call.
InitGemini ==
    /\ verdict = VerdictIdle
    /\ frames = <<>>
    /\ fftOut = Pending
    /\ motionOut = Pending
    /\ pool = None
    /\ table = {}
    /\ now = 0
    /\ nextId = 1
    /\ last = [op |-> "none", outcome |-> "none"]
    /\ procs = NoProcs
    /\ sampler = SamplerIdle
    /\ dl = DlIdle
    /\ gpool \in {NewGeminiClientPool(api_keys) : api_keys \in KeyLists}
    /\ handler = NewHandler
    /\ detector = NewDetector
    /\ starter = NewStarter
    /\ vtable = {}
    /\ firstIds = NoFirstIds

NextGemini ==
    \/ \E t \in Threads : AcquireEnter(t) /\ UNCHANGED << verdictVars, scoreVars, dbVars, otherVars, handler, detector, lifecycleVars, historyVars>>
    \/ \E t \in Threads : AcquireReadKey(t) /\ UNCHANGED << verdictVars, scoreVars, dbVars, otherVars, handler, detector, lifecycleVars, historyVars>>
    \/ \E t \in Threads : AcquireAdvance(t) /\ UNCHANGED << verdictVars, scoreVars, dbVars, otherVars, handler, detector, lifecycleVars, historyVars>>
    \/ \E t \in Threads : AcquireGet(t) /\ UNCHANGED << verdictVars, scoreVars, dbVars, otherVars, handler, detector, lifecycleVars, historyVars>>
    \/ \E t \in Threads : AcquireConstruct(t) /\ UNCHANGED << verdictVars, scoreVars, dbVars, otherVars, handler, detector, lifecycleVars, historyVars>>
    \/ \E t \in Threads : AcquireExit(t) /\ UNCHANGED << verdictVars, scoreVars, dbVars, otherVars, handler, detector, lifecycleVars, historyVars>>
    \/ \E t \in Threads : AcquireReturn(t) /\ UNCHANGED << verdictVars, scoreVars, dbVars, otherVars, handler, detector, lifecycleVars, historyVars>>
SpecGemini == InitGemini /\ [][NextGemini]_vars

\* The server is up and has answered no request.
InitHandler ==
    /\ verdict = VerdictIdle
    /\ frames = <<>>
    /\ fftOut = Pending
    /\ motionOut = Pending
    /\ pool = None
    /\ table = {}
    /\ now = 0
    /\ nextId = 1
    /\ last = [op |-> "none", outcome |-> "none"]
    /\ procs = NoProcs
    /\ sampler = SamplerIdle
    /\ dl = DlIdle
    /\ gpool = GPoolIdle
    /\ handler = NewHandler
    /\ detector = NewDetector
    /\ starter = NewStarter
    /\ vtable = {}
    /\ firstIds = NoFirstIds

NextHandler ==
    \/ VerifyTextRequest /\ UNCHANGED << verdictVars, scoreVars, dbVars, otherVars, gpool, detector, lifecycleVars, historyVars>>
    \/ VerifyTextVerify /\ UNCHANGED << verdictVars, scoreVars, dbVars, otherVars, gpool, detector, lifecycleVars, historyVars>>
    \/ VerifyTextValidate /\ UNCHANGED << verdictVars, scoreVars, dbVars, otherVars, gpool, detector, lifecycleVars, historyVars>>
    \/ VerifyTextRespond /\ UNCHANGED << verdictVars, scoreVars, dbVars, otherVars, gpool, detector, lifecycleVars, historyVars>>
SpecHandler == InitHandler /\ [][NextHandler]_vars

\* No pool, empty tables, no coroutine in flight.
InitLifecycle ==
    /\ verdict = VerdictIdle
    /\ frames = <<>>
    /\ fftOut = Pending
    /\ motionOut = Pending
    /\ pool = None
    /\ table = {}
    /\ now = 0
    /\ nextId = 1
    /\ last = [op |-> "none", outcome |-> "none"]
    /\ procs = NoProcs
    /\ sampler = SamplerIdle
    /\ dl = DlIdle
    /\ gpool = GPoolIdle
    /\ handler = NewHandler
    /\ detector = NewDetector
    /\ starter = NewStarter
    /\ vtable = {}
    /\ firstIds = NoFirstIds

NextLifecycle ==
    \/ \E c \in Coroutines : InitCheck(c) /\ UNCHANGED << verdictVars, scoreVars, otherVars, serviceVars, historyVars>>
    \/ \E c \in Coroutines : InitCreatePool(c) /\ UNCHANGED << verdictVars, scoreVars, otherVars, serviceVars, historyVars>>
    \/ \E c \in Coroutines : InitSchema(c) /\ UNCHANGED << verdictVars, scoreVars, otherVars, serviceVars, historyVars>>
    \/ \E c \in Coroutines : CloseCheck(c) /\ UNCHANGED << verdictVars, scoreVars, otherVars, serviceVars, historyVars>>
    \/ \E c \in Coroutines : ClosePool(c) /\ UNCHANGED << verdictVars, scoreVars, otherVars, serviceVars, historyVars>>
    \/ InsertVerificationRecord /\ UNCHANGED << verdictVars, scoreVars, otherVars, serviceVars, historyVars>>
    \/ FetchVerificationRecord /\ UNCHANGED << verdictVars, scoreVars, otherVars, serviceVars, historyVars>>
    \/ UpsertVideoAnalysisRecord /\ (IF last'.outcome = "RuntimeError" THEN TRUE ELSE last'.args \in LifecycleUpsertArgs) /\ RecordFirstId /\ UNCHANGED << verdictVars, scoreVars, otherVars, serviceVars, lifecycleVars>>
    \/ FetchVideoAnalysisRecord /\ (IF last'.outcome = "RuntimeError" THEN TRUE ELSE last'.video_url = <<"a">> /\ last'.video_id = None) /\ UNCHANGED << verdictVars, scoreVars, otherVars, serviceVars, lifecycleVars, historyVars>>
SpecLifecycle == InitLifecycle /\ [][NextLifecycle]_vars

\* The classifier is loaded and has not been called.
InitDetector ==
    /\ verdict = VerdictIdle
    /\ frames = <<>>
    /\ fftOut = Pending
    /\ motionOut = Pending
    /\ pool = None
    /\ table = {}
    /\ now = 0
    /\ nextId = 1
    /\ last = [op |-> "none", outcome |-> "none"]
    /\ procs = NoProcs
    /\ sampler = SamplerIdle
    /\ dl = DlIdle
    /\ gpool = GPoolIdle
    /\ handler = NewHandler
    /\ detector = NewDetector
    /\ starter = NewStarter
    /\ vtable = {}
    /\ firstIds = NoFirstIds

NextDetector ==
    \/ DetectCall /\ UNCHANGED << verdictVars, scoreVars, dbVars, otherVars, gpool, handler, lifecycleVars, historyVars>>
    \/ DetectOpen /\ UNCHANGED << verdictVars, scoreVars, dbVars, otherVars, gpool, handler, lifecycleVars, historyVars>>
    \/ DetectTry /\ UNCHANGED << verdictVars, scoreVars, dbVars, otherVars, gpool, handler, lifecycleVars, historyVars>>
    \/ DetectFinally /\ UNCHANGED << verdictVars, scoreVars, dbVars, otherVars, gpool, handler, lifecycleVars, historyVars>>
SpecDetector == InitDetector /\ [][NextDetector]_vars

(***************************************************************************)
(* Properties                                                              *)
(***************************************************************************)
PyGt(x, y) == x # NaN /\ y # NaN /\ x > y

\* C1: whenever the motion score is at or below the low-motion floor
\* (m <= 3.7), predict_ai_video returns the 'likely synthetic' verdict,
\* whatever the (numeric) artifact score.
C1_LowMotionIsSynthetic ==
    (verdict.called /\ verdict.fft_score # NaN /\ PyLe(verdict.motion_score, 37))
        => verdict.result = LIKELY_AI

\* C2: whenever the artifact score is at an extreme (a <= 0.5 or a >= 0.62),
\* predict_ai_video returns the 'likely synthetic' verdict, for every motion
\* score.
C2_ArtifactExtremeIsSynthetic ==
    (verdict.called /\ (PyLe(verdict.fft_score, 50) \/ PyGe(verdict.fft_score, 62)))
        => verdict.result = LIKELY_AI

C2_Witness ==
    /\ verdict.called
    /\ verdict.fft_score = 65
    /\ verdict.motion_score = 80
    /\ verdict.motion_branch = LIKELY_REAL
    /\ verdict.result = LIKELY_AI

\* C3: whenever the artifact score is strictly inside the band
\* (0.5 < a < 0.62) and the motion score is above the low-motion floor
\* (m > 3.7), predict_ai_video returns the 'likely authentic' verdict.
C3_InBandIsAuthentic ==
    (/\ verdict.called
     /\ PyGt(verdict.fft_score, 50) /\ PyGt(62, verdict.fft_score)
     /\ PyGt(verdict.motion_score, 37))
        => verdict.result = LIKELY_REAL

C3_Witness ==
    /\ verdict.called
    /\ verdict.fft_score = 55
    /\ verdict.motion_score = 80
    /\ verdict.result = LIKELY_REAL

\* C4: for the empty frame list analyze_fft ends in an error; it returns no
\* numeric value.
C4_EmptyFramesRaise ==
    (frames = <<>> /\ fftOut.outcome # "pending") => fftOut.outcome = "raised"

\* C5: for a frame list of length 1 or 0 analyze_motion ends in an error; it
\* returns no numeric value.
C5_ShortFramesRaise ==
    (Len(frames) <= 1 /\ motionOut.outcome # "pending") => motionOut.outcome = "raised"

\* C6: in every reachable state of the store no two rows share a video_url
\* and no two rows share a non-null video_id.
C6_UniqueUrlAndVideoId ==
    \A r1 \in table, r2 \in table :
        r1 # r2 =>
            /\ r1.video_url # r2.video_url
            /\ (r1.video_id # None => r1.video_id # r2.video_id)

\* Two rows are stored and the last upsert was turned down by an index.
C6_Witness ==
    /\ Cardinality(table) = 2
    /\ last.op = "upsert"
    /\ last.outcome = "UniqueViolationError"
    /\ \E r \in table : r.video_id = last.args.video_id

\* A step in which an upsert call reached the database (uuid4 was drawn).
UpsertStep == nextId' = nextId + 1

\* The step is an upsert that repeats, argument for argument, the upsert
\* call before it.
RepeatedUpsertStep ==
    /\ UpsertStep
    /\ last.op = "upsert"
    /\ last.outcome # "RuntimeError"
    /\ last'.args = last.args

\* After the repeated call there is exactly one row for the URL, it carries
\* the same score, verdict, transcript and fact-check columns as before the
\* call, and its updated_at is not earlier.
RepeatedUpsertEffect ==
    LET url == Strip(last.args.video_url)
        before == RowsWithUrl(table, url)
        after == RowsWithUrl(table', url)
    IN /\ Cardinality(before) = 1
       /\ Cardinality(after) = 1
       /\ \A o \in before, n \in after :
            /\ n.fft_score = o.fft_score
            /\ n.motion_score = o.motion_score
            /\ n.ai_result = o.ai_result
            /\ n.transcript = o.transcript
            /\ n.transcript_srt = o.transcript_srt
            /\ n.duration = o.duration
            /\ n.fact_accuracy = o.fact_accuracy
            /\ n.fact_accuracy_reason = o.fact_accuracy_reason
            /\ n.fact_reason = o.fact_reason
            /\ n.fact_urls = o.fact_urls
            /\ n.raw_fact_response = o.raw_fact_response
            /\ n.updated_at >= o.updated_at

UpsertExistingStep ==
    /\ UpsertStep
    /\ RowsWithUrl(table, Strip(last'.args.video_url)) # {}

\* The row of that URL now carries the call's score, verdict, transcript and
\* fact-check values and updated_at = NOW(); its video_url, id and created_at
\* are as before; every row of another URL is as before.
OverwriteEffect ==
    LET args == last'.args
        url == Strip(args.video_url)
        given == args.payload
    IN /\ \A r \in table : r.video_url # url => r \in table'
       /\ \A r \in table' : r.video_url # url => r \in table
       /\ \E n \in table' : n.video_url = url
       /\ \A o \in table, n \in table' :
            (o.video_url = url /\ n.video_url = url) =>
                /\ n.fft_score = given.fft_score
                /\ n.motion_score = given.motion_score
                /\ n.ai_result = given.ai_result
                /\ n.transcript = given.transcript
                /\ n.transcript_srt = given.transcript_srt
                /\ n.duration = given.duration
                /\ n.fact_accuracy = given.fact_accuracy
                /\ n.fact_accuracy_reason = given.fact_accuracy_reason
                /\ n.fact_reason = given.fact_reason
                /\ JsonLoads(n.fact_urls) =
                      (IF given.fact_urls = NoneList THEN <<>> ELSE given.fact_urls)
                /\ n.raw_fact_response = given.raw_fact_response
                /\ n.updated_at = now
                /\ n.id = o.id
                /\ n.created_at = o.created_at

\* C8 as stated: every upsert call for a video_url that already has a row
\* overwrites that row's columns and leaves identity, created_at and the
\* other rows alone.
C8_UpsertOverwrites ==
    [][UpsertExistingStep => OverwriteEffect]_vars

\* C8 amended: the same, unless the call's non-null video_id is held by a
\* row of another video_url; such a call fails and changes no row.
C8_UpsertOverwritesUnlessIdTaken ==
    [][UpsertExistingStep =>
        IF \E r \in table :
              /\ r.video_url # Strip(last'.args.video_url)
              /\ last'.args.video_id # None
              /\ r.video_id = last'.args.video_id
        THEN last'.outcome = "UniqueViolationError" /\ table' = table
        ELSE last'.outcome = "ok" /\ OverwriteEffect]_vars

\* An existing row was overwritten with other values while another URL's
\* row sat beside it.
C8_Witness ==
    /\ last.op = "upsert"
    /\ last.outcome = "ok"
    /\ last.id < nextId - 1
    /\ Cardinality(table) = 2
    /\ \E r \in table :
        /\ r.id = last.id
        /\ r.updated_at > r.created_at
        /\ r.transcript = last.args.payload.transcript
        /\ r.transcript = None

\* C9: fetch returns the row whose video_url equals the stripped url whenever
\* there is one, even when another row matches video_id; the video_id query
\* runs only when the URL query missed and a non-empty video_id was given;
\* the result is None when both miss.
C9_FetchPrefersUrl ==
    (last.op = "fetch" /\ last.outcome = "ok") =>
        LET url == Strip(last.video_url)
            urlHit == \E r \in table : r.video_url = url
            idGiven == last.video_id # None /\ last.video_id # ""
            idHit == \E r \in table : r.video_id = last.video_id
        IN /\ urlHit =>
                /\ last.result.found
                /\ last.result.record.video_url = url
                /\ \E r \in table :
                    r.video_url = url /\ last.result.record = RecordDict(r)
           /\ last.result.idQueried => (~ urlHit /\ idGiven)
           /\ (~ urlHit /\ ~ (last.result.idQueried /\ idHit)) => ~ last.result.found

\* A fetch answered by the URL's row although another row holds the
\* video_id that was asked for.
C9_Witness ==
    /\ last.op = "fetch"
    /\ last.outcome = "ok"
    /\ last.video_id = "x"
    /\ last.result.found
    /\ last.result.record.video_id # "x"
    /\ last.result.record.video_url = Strip(last.video_url)
    /\ \E r \in table : r.video_id = "x"

\* The fetch asked for a video_id held by a stored row and for a URL that no
\* row has, and it returned that row.
FetchByIdReturnsHolder ==
    \A r \in table :
        (/\ r.video_id = last.video_id
         /\ ~ \E q \in table : q.video_url = Strip(last.video_url))
            => (last.result.found /\ last.result.record = RecordDict(r))

\* C10 as stated: once a row with non-null video_id v is stored, a fetch for
\* v under a URL that matches no row returns that row.
C10_FetchByNonNullId ==
    (last.op = "fetch" /\ last.outcome = "ok" /\ last.video_id # None)
        => FetchByIdReturnsHolder

\* C10 amended: the same for a video_id that is neither null nor the empty
\* string; for the empty string the video_id query is not made and the
\* fetch returns None.
C10_FetchByNonEmptyId ==
    (last.op = "fetch" /\ last.outcome = "ok" /\ last.video_id # None) =>
        IF last.video_id # ""
        THEN FetchByIdReturnsHolder
        ELSE (~ \E q \in table : q.video_url = Strip(last.video_url))
                => ~ last.result.found

\* A fetch under an unknown URL that was answered through the video_id.
C10_Witness ==
    /\ last.op = "fetch"
    /\ last.outcome = "ok"
    /\ last.result.idQueried
    /\ last.result.found
    /\ last.result.record.video_id = last.video_id
    /\ last.result.record.video_url # Strip(last.video_url)

\* The callers whose upsert has ended, by return or by exception.
Finished(p) == procs.call[p].pc \in {"returned", "raised"}

\* Does row r hold exactly the columns a call with these arguments writes:
\* video_url (stripped), video_id and every score, verdict, transcript and
\* fact-check column, all from the one call?
HoldsFieldSetOf(r, args) ==
    r = [NewRow(r.id, args, r.created_at) EXCEPT !.updated_at = r.updated_at]

\* The caller whose statement was applied last.
LastWriter == procs.log[Len(procs.log)]

\* The stored record of the shared URL is never a mixture: there is at most
\* one, and it holds the field set of the call applied last.
NoMixedRecord ==
    /\ Cardinality(RowsWithUrl(table, SharedUrl)) <= 1
    /\ \A r \in RowsWithUrl(table, SharedUrl) :
           /\ procs.log # <<>>
           /\ HoldsFieldSetOf(r, procs.call[LastWriter].args)

RequestDone(p) == procs.call[p].pc \in {"cached", "returned", "raised"}

\* C12: two concurrent requests for one URL are not kept from both running
\* the pipeline (the witness below is such a state); whatever the
\* interleaving, the store never holds two records for the URL, no upsert
\* of the two fails, and once both requests are done it holds exactly one
\* record for the URL, written by a request that ran the pipeline.
C12_DuplicateRunsOneRecord ==
    /\ Cardinality(RowsWithUrl(table, SharedUrl)) <= 1
    /\ \A p \in Callers : procs.call[p].pc # "raised"
    /\ (\A p \in Callers : RequestDone(p))
           => /\ Cardinality(RowsWithUrl(table, SharedUrl)) = 1
              /\ procs.log # <<>>
              /\ \A r \in RowsWithUrl(table, SharedUrl) :
                     HoldsFieldSetOf(r, procs.call[procs.log[Len(procs.log)]].args)

\* Both requests have observed a miss and are running the pipeline at the
\* same time.
C12_Witness ==
    /\ \A p \in Callers : procs.call[p].pc = "pipeline"
    /\ RowsWithUrl(table, SharedUrl) = {}

SamplerExited == sampler.pc \in {"returned", "raised"}

\* ceil(t / s) for s >= 1.
CeilDiv(t, s) == (t + s - 1) \div s

IsAscending(q) == \A j \in 1 .. Len(q), k \in 1 .. Len(q) : j < k => q[j] < q[k]

\* C13: a sample_frames call with stride S >= 1 that returns has attempted
\* exactly the indices 0, S, 2S, ... below the frame count T, in ascending
\* order, and returns one frame for each attempted index whose read
\* succeeded and none for a failed read, in ascending index order: at most
\* ceil(T / S) frames.
C13_SampledIndices ==
    (sampler.pc = "returned" /\ sampler.sample_rate >= 1)
        => LET T == sampler.total_frames
               S == sampler.sample_rate
               n == CeilDiv(T, S)
           IN /\ Len(sampler.attempts) = n
              /\ \A k \in 1 .. n :
                     sampler.attempts[k] = (k - 1) * S /\ sampler.attempts[k] < T
              /\ sampler.frames =
                     SelectSeq(sampler.attempts,
                               LAMBDA i : sampler.file.frames[i + 1] = "ok")
              /\ IsAscending(sampler.frames)
              /\ Len(sampler.frames) <= n

\* A call with stride 2 over a file of 5 frames has returned frames 0 and
\* 4; the read of frame 2 failed.
C13_Witness ==
    /\ sampler.pc = "returned"
    /\ sampler.sample_rate = 2
    /\ sampler.total_frames = 5
    /\ sampler.attempts = <<0, 2, 4>>
    /\ sampler.frames = <<0, 4>>

\* C14: a sample_frames call on a file that cannot be opened ends in an
\* error; a call returns the empty list only for a file that opens and
\* holds no frames.
C14_UnopenableFileRaises ==
    /\ (SamplerExited /\ ~ sampler.file.opens) => sampler.pc = "raised"
    /\ (sampler.pc = "returned" /\ sampler.frames = <<>>)
           => (sampler.file.opens /\ Len(sampler.file.frames) = 0)

\* C15: when a sample_frames call has ended, by return or by exception, the
\* capture it opened has been released.
C15_CaptureReleasedOnExit ==
    SamplerExited => sampler.cap # "open"

IsAllZero(M) == \A p \in Cells(M) : M[p[1]][p[2]] = 0

\* The scores of the frames of fs that are not all-zero, in order.
NonZeroFrameScores(fs) ==
    LET nz == SelectSeq(fs, LAMBDA f : ~ IsAllZero(f))
    IN [i \in 1 .. Len(nz) |-> fft_artifact_score(nz[i])]

\* C16: fft_artifact_score of an all-zero frame is exactly 0.0 (no division
\* is attempted), and analyze_fft of a list holding such a frame returns
\* the mean in which that frame counts as 0.0: the sum of the other frames'
\* scores over the number of all frames.
C16_ZeroFrameCountsAsZero ==
    (fftOut.outcome # "pending" /\ \E i \in 1 .. Len(frames) : IsAllZero(frames[i]))
        => /\ \A i \in 1 .. Len(frames) :
                  IsAllZero(frames[i]) => fft_artifact_score(frames[i]) = RatZero
           /\ fftOut.outcome = "returned"
           /\ ~ IsNaN(fftOut.value)
           /\ LET t == RatSum(NonZeroFrameScores(frames))
              IN fftOut.value = Rat(t.num, t.den * Len(frames))

\* analyze_fft has run over an all-zero frame followed by a frame with
\* energy outside the centre, and returned a positive mean.
C16_Witness ==
    /\ fftOut.outcome = "returned"
    /\ Len(frames) = 3
    /\ ~ IsAllZero(frames[1])
    /\ IsAllZero(frames[2])
    /\ ~ IsAllZero(frames[3])
    /\ fft_artifact_score(frames[3]).num > 0
    /\ fftOut.value.num > 0

\* C17: for every non-empty frame list the aggregate artifact score is a
\* number in [0, 1].
C17_AggregateInUnitInterval ==
    (frames # <<>> /\ fftOut.outcome # "pending")
        => /\ fftOut.outcome = "returned"
           /\ fftOut.value.den > 0
           /\ 0 <= fftOut.value.num
           /\ fftOut.value.num <= fftOut.value.den

\* The upper end is attained: three frames with all energy outside the
\* centre score 1.0 on aggregate.
C17_Witness ==
    /\ Len(frames) = 3
    /\ fftOut.outcome = "returned"
    /\ fftOut.value = [num |-> 1, den |-> 1]

\* The frame list fs reordered by the permutation pi of its indices.
Reordered(fs, pi) == [i \in 1 .. Len(fs) |-> fs[pi[i]]]

C20_LaterCallsReuseTheFile ==
    dl.last.op = "download"
        => /\ dl.last.path \in dl.files
           /\ dl.last.later
                  => /\ ~ dl.last.download
                     /\ dl.last.path = dl.first[dl.last.url].path
                     /\ dl.last.video_id = dl.first[dl.last.url].video_id

\* The rows of another video_url that hold this video_id.
HeldElsewhere(t, args) ==
    {r \in t : r.video_id = args.video_id /\ r.video_url # Strip(args.video_url)}

\* C23: an upsert call that reaches the database with a non-null video_id
\* held by a stored row of a different video_url fails with a unique
\* violation and leaves the table as it was, whether or not its own
\* video_url has a row.
C23_IdConflictFailsAndKeepsTable ==
    [][(UpsertStep /\ last'.args.video_id # None
                   /\ HeldElsewhere(table, last'.args) # {})
           => (last'.outcome = "UniqueViolationError" /\ table' = table)]_vars

\* The last upsert was turned down although its own video_url has a row:
\* it would have overwritten that row with a video_id another row holds.
C23_Witness ==
    /\ last.op = "upsert"
    /\ last.outcome = "UniqueViolationError"
    /\ RowsWithUrl(table, Strip(last.args.video_url)) # {}
    /\ HeldElsewhere(table, last.args) # {}
    /\ \E r \in RowsWithUrl(table, Strip(last.args.video_url)) :
           r.video_id # last.args.video_id

\* C24: every successful upsert for a video_url returns the id the first
\* successful upsert for that video_url returned, the stored row carries
\* that id, a fetch by that video_url reports it, and the uuid4 value a
\* later call generated is neither returned nor stored.
C24_IdOfFirstUpsertKept ==
    /\ \A r \in table : firstIds[r.video_url] # 0 /\ r.id = firstIds[r.video_url]
    /\ \A u \in {Strip(u) : u \in RawUrls} : firstIds[u] # 0 => RowsWithUrl(table, u) # {}
    /\ (last.op = "upsert" /\ last.outcome = "ok")
           => last.id = firstIds[Strip(last.args.video_url)]
    /\ (last.op = "fetch" /\ last.outcome = "ok" /\ last.result.found
           /\ last.result.record.video_url = Strip(last.video_url))
           => last.result.record.id = firstIds[Strip(last.video_url)]

\* The third upsert overall succeeded on a video_url whose first upsert was
\* the first overall: it generated uuid 3 and returned id 1.
C24_Witness ==
    /\ last.op = "upsert"
    /\ last.outcome = "ok"
    /\ nextId = 4
    /\ last.id = 1
    /\ Cardinality(table) = 2


\* The key the rotation assigns to the call that entered the lock as number
\* ticket (counted from 0).
RotationKey(ticket) == gpool.keys[(ticket % Len(gpool.keys)) + 1]

\* The finished calls whose tickets are k .. k + n - 1.
ReturnedWindow(k) ==
    {i \in 1 .. Len(gpool.returned) :
        gpool.returned[i].ticket \in k .. k + Len(gpool.keys) - 1}

\* C21: in a pool of n >= 1 keys the k-th acquire_client call, in the order
\* the calls enter the lock, takes and returns the client of key k mod n under
\* every interleaving of the calling threads; in any n consecutive
\* acquisitions every key is used exactly once; and no two callers are handed
\* the same rotation slot.
C21_RoundRobinUnderInterleaving ==
    /\ \A i \in 1 .. Len(gpool.returned) :
           gpool.returned[i].client.api_key = RotationKey(gpool.returned[i].ticket)
    /\ \A t \in Threads :
           gpool.thread[t].pc \notin {"idle", "key"} =>
               gpool.thread[t].key = RotationKey(gpool.thread[t].ticket)
    /\ \A t, u \in Threads :
           (t # u /\ gpool.thread[t].pc # "idle" /\ gpool.thread[u].pc # "idle") =>
               gpool.thread[t].ticket # gpool.thread[u].ticket
    /\ \A k \in 0 .. gpool.entered :
           Cardinality(ReturnedWindow(k)) = Len(gpool.keys) =>
               \A j \in 1 .. Len(gpool.keys) :
                   Cardinality({i \in ReturnedWindow(k) :
                                   gpool.returned[i].client.api_key = gpool.keys[j]}) = 1

\* Three keys, four finished calls, and a call that entered the lock later
\* returned before an earlier one.
C21_Witness ==
    /\ Len(gpool.keys) = 3
    /\ Len(gpool.returned) >= 4
    /\ gpool.returned[1].ticket > gpool.returned[2].ticket

\* C27: in every reachable state 0 <= _index < number of keys; the client map
\* holds at most one client per key and only for keys of the pool; no key has
\* two clients constructed; and every returned client is the one the map
\* holds for its key.
C27_PoolInvariant ==
    /\ gpool.index \in 0 .. Len(gpool.keys) - 1
    /\ \A e \in gpool.clients :
           /\ \E j \in 1 .. Len(gpool.keys) : gpool.keys[j] = e[1]
           /\ e[2].api_key = e[1]
    /\ \A e, f \in gpool.clients : e[1] = f[1] => e = f
    /\ \A i, j \in 1 .. Len(gpool.constructed) :
           gpool.constructed[i].api_key = gpool.constructed[j].api_key => i = j
    /\ \A i \in 1 .. Len(gpool.returned) :
           /\ gpool.returned[i].client # NoClient
           /\ gpool.returned[i].client =
                  DictGet(gpool.clients, gpool.returned[i].client.api_key)

\* Two keys, both clients constructed, and four calls finished: each client
\* has been handed out again after its construction, and the index wrapped.
C27_Witness ==
    /\ Len(gpool.keys) = 2
    /\ Len(gpool.constructed) = 2
    /\ Len(gpool.returned) >= 4
    /\ gpool.index = 0


\* C22: whenever the verifier returns a valid VerificationResult, the request
\* to POST /verify/text completes with status 200 and a VerificationResponse
\* carrying that result and the raw model response; a successful verification
\* never ends in an error response.
C22_SuccessfulVerificationAnswers200 ==
    \A i \in 1 .. Len(handler.served) :
        handler.served[i].outcome \in VerifierReturns =>
            /\ handler.served[i].response.status = 200
            /\ handler.served[i].response.body # None
            /\ handler.served[i].response.body.result = "VerificationResult"
            /\ handler.served[i].response.body.raw_model_response = handler.served[i].raw


\* C25: under any interleaving of init_db_pool calls at most one pool is
\* created between two close_db_pool calls, and every created pool is the one
\* held in _pool: a pool that was created and not closed is the pool _pool
\* refers to.
C25_OnePoolBetweenCloses ==
    \A i \in 1 .. Len(starter.created) :
        starter.created[i] \notin starter.closed => pool = starter.created[i]

\* A step of one of the four data functions: no coroutine of the life cycle
\* moves.
DataStep == starter' = starter

\* Coroutine c starts a call of op in this step.
Starts(c, op) ==
    /\ starter.call[c].pc = "idle"
    /\ starter'.calls = starter.calls + 1
    /\ starter'.call[c].n = starter'.calls
    /\ starter'.call[c].op = op

\* C26: while the pool is not initialised, insert_verification_record,
\* fetch_verification_record, fetch_video_analysis_record and
\* upsert_video_analysis_record each fail with RuntimeError and leave both
\* tables unchanged; close_db_pool without a pool does nothing; init_db_pool
\* with a pool in place does nothing.
C26_GuardsOfThePool ==
    [][ /\ (pool = None /\ DataStep) =>
              /\ last'.outcome = "RuntimeError"
              /\ table' = table /\ vtable' = vtable /\ pool' = None
        /\ \A c \in Coroutines :
              (pool = None /\ Starts(c, "close")) =>
                  /\ starter'.call[c].pc = "idle"
                  /\ starter'.call[c].result = "returned"
                  /\ pool' = None
                  /\ starter'.created = starter.created
                  /\ starter'.closed = starter.closed
                  /\ table' = table /\ vtable' = vtable
        /\ \A c \in Coroutines :
              (pool # None /\ Starts(c, "init")) =>
                  /\ starter'.call[c].pc = "idle"
                  /\ starter'.call[c].result = "returned"
                  /\ pool' = pool
                  /\ starter'.created = starter.created
                  /\ starter'.closed = starter.closed
                  /\ table' = table /\ vtable' = vtable
      ]_vars

\* After a pool was opened, written through and closed: both tables hold a
\* row, a data call has just failed, and one coroutine's close and the
\* other's init have returned at once.
C26_Witness ==
    /\ pool = None
    /\ table # {}
    /\ vtable # {}
    /\ last.outcome = "RuntimeError"
    /\ Len(starter.created) = 1
    /\ \E c, d \in Coroutines :
          /\ starter.call[c].op = "close" /\ starter.call[c].result = "returned"
          /\ starter.call[d].op = "init" /\ starter.call[d].result = "returned"
          /\ starter.calls = 3


\* C28: detect_deepfake_image_bytes never raises, whatever the input bytes;
\* in the returned result success is true exactly when error is None; a failed
\* result has verdict, confidence, fake_prob and real_prob all None; a
\* successful result has verdict Fake exactly when fake_prob_raw >=
\* real_prob_raw and confidence equal to the larger probability; and the
\* opened image is closed on every path.
C28_DetectorNeverRaises ==
    /\ detector.pc # "raised"
    /\ detector.pc = "returned" =>
          LET r == detector.result
              fake_prob_raw == detector.file_bytes.fake
              real_prob_raw == ProbUnit - detector.file_bytes.fake
          IN /\ r.success <=> r.error = None
             /\ ~r.success =>
                   /\ r.verdict = None /\ r.confidence = None
                   /\ r.fake_prob = None /\ r.real_prob = None
             /\ r.success =>
                   /\ r.verdict = "Fake" <=> fake_prob_raw >= real_prob_raw
                   /\ r.verdict \in {"Fake", "Real"}
                   /\ r.confidence = IF r.fake_prob >= r.real_prob
                                     THEN r.fake_prob ELSE r.real_prob
             /\ detector.image # "open"
             /\ detector.processed_image # "open"

=============================================================================
